---- MODULE Spec2Model ----
(***************************************************************************)
(* Model of the xplane_plugin! boundary adapter (src/lib.rs): the slot     *)
(* PLUGIN, the five exported entry points and the marshaling of the        *)
(* descriptor returned by info() into the three host buffers.              *)
(*                                                                         *)
(* Bytes are naturals, NUL is 0.  A text is a sequence of bytes.  An       *)
(* instance of the Plugin implementation is named by a positive number (0  *)
(* is the null pointer).  Every entry point is a sequence of steps, one    *)
(* per statement of its body; pc[t] is the position of host thread t.      *)
(***************************************************************************)
EXTENDS Naturals, Sequences, FiniteSets

\* ---------------------------------------------------------------- bounds
\* Capacity, in bytes, of each of the three host buffers (fixed by the host
\* ABI, unknown to the adapter).
Cap == 10
\* Longest of the enumerated short descriptor fields.
MaxText == 1
\* Most bytes that lie between the nine bytes of b"<invalid>" and the next
\* NUL byte of the memory that follows the literal.
MaxJunk == 2
\* Entry-point calls the host makes in one run of the life-cycle
\* specification, and of the marshaling specification.
MaxCalls == 6
MaxCallsM == 2
\* Entry-point calls the host makes in one run of the concurrent
\* specification.
MaxCallsC == 3

\* ------------------------------------------------------------- constants
\* The terminator of a C string; the byte CString::new refuses.
NUL == 0
\* The empty slot: 0 as PluginPtr, ptr::null_mut().
NULL == 0
\* "<invalid>" as bytes: the literal has no terminator of its own.
Invalid == <<60, 105, 110, 118, 97, 108, 105, 100, 62>>

Threads == {"main", "other"}
Bufs == {"outName", "outSig", "outDescription"}
\* What the host left in its buffers before the call: zeroes, or some
\* other byte.
Fillers == {0, 255}

\* ----------------------------------------------------------------- texts
Fill(n) == [i \in 1..n |-> 65]

\* The plain fields of every length up to MaxText, two fields with a NUL
\* byte (alone, and between two other bytes), and the two fields around the
\* capacity: one that fills the buffer exactly with its terminator, one
\* that does not fit.
Texts ==
    {Fill(n) : n \in 0..MaxText}
        \cup {<<NUL>>, <<66, NUL, 65>>, Fill(Cap - 1), Fill(Cap)}

PluginInfo == [name : Texts, signature : Texts, description : Texts]

\* The descriptors of the life-cycle specification: one with short fields,
\* one with a description longer than the buffer.
LifeInfos ==
    { [name |-> <<65>>, signature |-> <<65, 66>>, description |-> <<>>],
      [name |-> <<66>>, signature |-> <<65>>, description |-> Fill(Cap)] }

NoInfo == [name |-> <<>>, signature |-> <<>>, description |-> <<>>]

\* ------------------------------------------------------------ marshaling
HasNul(s) == \E i \in 1..Len(s) : s[i] = NUL

RECURSIVE FirstNul(_, _)
\* Index of the first NUL of s at or after i; Len(s) + 1 when there is none.
FirstNul(s, i) ==
    IF i > Len(s) THEN Len(s) + 1
    ELSE IF s[i] = NUL THEN i ELSE FirstNul(s, i + 1)

\* std::ffi::CString::new(text).ok(): None for a text with a NUL byte,
\* otherwise the bytes followed by the terminator.
CStringNew(s) ==
    IF HasNul(s) THEN [ok |-> FALSE, bytes |-> <<>>]
    ELSE [ok |-> TRUE, bytes |-> s \o <<NUL>>]

\* A strcpy that stops before the terminator instead of after it.
Strcpy_NoTerminator(src) == SubSeq(src, 1, FirstNul(src, 1) - 1)

\* The bytes libc::strcpy stores: those of the source up to and including
\* its first NUL.
Strcpy(src) == SubSeq(src, 1, FirstNul(src, 1))

\* The memory strcpy reads at b"<invalid>".as_ptr(): the nine bytes of the
\* literal, then whatever follows it up to the next NUL (junk).
InvalidSrc(junk) == Invalid \o junk \o <<NUL>>

Junks == {[i \in 1..n |-> 88] : n \in 0..MaxJunk}

\* match CString::new(field).ok() { Some(s) => strcpy(out, s.as_ptr()),
\*                                  None => strcpy(out, b"<invalid>".as_ptr()) }
Marshal(field, junk) ==
    IF CStringNew(field).ok THEN Strcpy(CStringNew(field).bytes)
    ELSE Strcpy(InvalidSrc(junk))

\* The buffer of Cap bytes after bytes were stored from its first byte on;
\* bytes past the capacity land outside the buffer.
Store(old, bytes) ==
    [i \in 1..Cap |-> IF i <= Len(bytes) THEN bytes[i] ELSE old[i]]

\* What a reader of a C string finds: the bytes before the first NUL.
Decode(mem) == SubSeq(mem, 1, FirstNul(mem, 1) - 1)

\* ----------------------------------------------------------------- state
VARIABLES
    PLUGIN,         \* the slot: NULL or the instance it points to
    alive,          \* instances constructed and not yet destroyed
    destroyed,      \* instances destroyed (dropped)
    plugin_option,  \* XPluginStart's local: the instance start() returned
    info,           \* XPluginStart's local: the descriptor info() returned
    buf,            \* the three host buffers, Cap bytes each
    written,        \* the bytes the last strcpy stored at each out pointer
    calls,          \* the calls made on the Plugin implementation, in order
    pc,             \* position of each host thread
    proc,           \* "running", or how the process left defined behaviour
    hostState,      \* the host's place in the life-cycle state machine
    conforming,     \* every entry-point call so far conformed to it
    hist            \* the entry-point calls of the host, in order

vars == <<PLUGIN, alive, destroyed, plugin_option, info, buf, written, calls,
          pc, proc, hostState, conforming, hist>>

Call(m, inst) == [m |-> m, inst |-> inst]

\* An entry-point call of the host and the status code it returned: 0 or 1
\* from XPluginStart, NoRet from a call that returns nothing or has not
\* returned.
NoRet == 2
HostCall(e, r) == [e |-> e, r |-> r]

\* A panic inside an extern "C" function that nothing catches: the build
\* either aborts the process or lets the unwinding reach the host's frames.
PanicOutcomes == {"aborted", "unwound"}

\* The state when the host has loaded the library: PLUGIN is null, the
\* host's buffers are filled with a byte of F.
InitWith(F) ==
    /\ PLUGIN = NULL
    /\ alive = {}
    /\ destroyed = {}
    /\ plugin_option = NULL
    /\ info = NoInfo
    /\ \E f \in F : buf = [b \in Bufs |-> [i \in 1..Cap |-> f]]
    /\ written = [b \in Bufs |-> <<>>]
    /\ calls = <<>>
    /\ pc = [t \in Threads |-> "idle"]
    /\ proc = "running"
    /\ hostState = "Absent"
    /\ conforming = TRUE
    /\ hist = <<>>

Init == InitWith({255})

InitMarshal == InitWith(Fillers)

\* ----------------------------------------------------------- entry points
Goto(t, l) == pc' = [pc EXCEPT ![t] = l]

\* An entry that waits until no entry point runs on any thread, as if a
\* lock guarded the slot.
Enter_Locked(t, n) ==
    /\ proc = "running"
    /\ \A u \in Threads : pc[u] = "idle"
    /\ Len(hist) < n

\* The host may call an entry point on thread t: its n-th call at most.
\* Nothing is waited for: no lock guards PLUGIN.
Enter(t, n) ==
    /\ proc = "running"
    /\ pc[t] = "idle"
    /\ Len(hist) < n

\* The position in h of the call of XPluginStart that began last.
LastStart(h) ==
    CHOOSE i \in 1..Len(h) :
        /\ h[i].e = "XPluginStart"
        /\ \A j \in (i + 1)..Len(h) : h[j].e # "XPluginStart"

\* The host's record of a call of e that has begun.
Begun(e) == Append(hist, HostCall(e, NoRet))

\* (*PLUGIN).m(): a call of method m through the slot.  Through a null or
\* dangling slot the behaviour is undefined; otherwise m runs on the
\* instance and returns or panics.
CallOnSlot(m) ==
    \/ /\ PLUGIN = NULL
       /\ proc' = "null_deref"
       /\ calls' = calls
    \/ /\ PLUGIN # NULL
       /\ PLUGIN \notin alive
       /\ proc' = "use_after_free"
       /\ calls' = calls
    \/ /\ PLUGIN \in alive
       /\ calls' = Append(calls, Call(m, PLUGIN))
       /\ proc' \in {"running"} \cup PanicOutcomes

\* libc::strcpy(out, ...) of one descriptor field.
MarshalInto(b, field) ==
    \E junk \in Junks :
        /\ written' = [written EXCEPT ![b] = Marshal(field, junk)]
        /\ buf' = [buf EXCEPT ![b] = Store(@, Marshal(field, junk))]

\* An XPluginStart whose None arm reports success.
XPluginStart_start_NoneIsOne(t, n) ==
    /\ Enter(t, n)
    /\ conforming' = (conforming /\ hostState = "Absent")
    /\ \/ /\ plugin_option' = Len(hist) + 1
          /\ alive' = alive \cup {Len(hist) + 1}
          /\ calls' = Append(calls, Call("start", Len(hist) + 1))
          /\ hist' = Begun("XPluginStart")
          /\ Goto(t, "start_store")
          /\ UNCHANGED proc
       \/ /\ plugin_option' = NULL
          /\ calls' = Append(calls, Call("start", NULL))
          /\ hist' = Append(hist, HostCall("XPluginStart", 1))
          /\ UNCHANGED <<alive, pc, proc>>
       \/ /\ calls' = Append(calls, Call("start", NULL))
          /\ hist' = Begun("XPluginStart")
          /\ proc' \in PanicOutcomes
          /\ UNCHANGED <<plugin_option, alive, pc>>
    /\ UNCHANGED <<PLUGIN, destroyed, info, buf, written, hostState>>

\* let plugin_option = PluginType::start(); match plugin_option { ... None => 0 }
\* start() returns a new instance, returns None, or panics.
XPluginStart_start(t, n) ==
    /\ Enter(t, n)
    /\ conforming' = (conforming /\ hostState = "Absent")
    /\ \/ /\ plugin_option' = Len(hist) + 1
          /\ alive' = alive \cup {Len(hist) + 1}
          /\ calls' = Append(calls, Call("start", Len(hist) + 1))
          /\ hist' = Begun("XPluginStart")
          /\ Goto(t, "start_store")
          /\ UNCHANGED proc
       \/ /\ plugin_option' = NULL
          /\ calls' = Append(calls, Call("start", NULL))
          /\ hist' = Append(hist, HostCall("XPluginStart", 0))
          /\ UNCHANGED <<alive, pc, proc>>
       \/ /\ calls' = Append(calls, Call("start", NULL))
          /\ hist' = Begun("XPluginStart")
          /\ proc' \in PanicOutcomes
          /\ UNCHANGED <<plugin_option, alive, pc>>
    /\ UNCHANGED <<PLUGIN, destroyed, info, buf, written, hostState>>

\* An XPluginStart that boxes the instance and leaves the slot as it was.
XPluginStart_store_NotStored(t) ==
    /\ proc = "running"
    /\ pc[t] = "start_store"
    /\ Goto(t, "start_info")
    /\ UNCHANGED <<PLUGIN, alive, destroyed, plugin_option, info, buf, written,
                   calls, proc, hostState, conforming, hist>>

\* An XPluginStart that drops the instance the slot refers to before it
\* stores the new one.
XPluginStart_store_DropsOld(t) ==
    /\ proc = "running"
    /\ pc[t] = "start_store"
    /\ PLUGIN' = plugin_option
    /\ alive' = alive \ {PLUGIN}
    /\ destroyed' = destroyed \cup (alive \cap {PLUGIN})
    /\ Goto(t, "start_info")
    /\ UNCHANGED <<plugin_option, info, buf, written, calls, proc, hostState,
                   conforming, hist>>

\* Some(plugin) => PLUGIN = Box::into_raw(Box::new(plugin));
XPluginStart_store(t) ==
    /\ proc = "running"
    /\ pc[t] = "start_store"
    /\ PLUGIN' = plugin_option
    /\ Goto(t, "start_info")
    /\ UNCHANGED <<alive, destroyed, plugin_option, info, buf, written, calls,
                   proc, hostState, conforming, hist>>

\* let info = (*PLUGIN).info();  info() returns a descriptor of D or panics
XPluginStart_info(t, D) ==
    /\ proc = "running"
    /\ pc[t] = "start_info"
    /\ CallOnSlot("info")
    /\ IF proc' = "running"
         THEN /\ info' \in D
              /\ Goto(t, "start_name")
         ELSE UNCHANGED <<info, pc>>
    /\ UNCHANGED <<PLUGIN, alive, destroyed, plugin_option, buf, written,
                   hostState, conforming, hist>>

\* An XPluginStart that unwraps CString::new(info.name): a NUL byte in the
\* name panics instead of falling back.
XPluginStart_name_Unwrap(t) ==
    /\ proc = "running"
    /\ pc[t] = "start_name"
    /\ IF HasNul(info.name)
         THEN /\ proc' \in PanicOutcomes
              /\ UNCHANGED <<written, buf, pc>>
         ELSE /\ MarshalInto("outName", info.name)
              /\ Goto(t, "start_sig")
              /\ UNCHANGED proc
    /\ UNCHANGED <<PLUGIN, alive, destroyed, plugin_option, info, calls,
                   hostState, conforming, hist>>

\* match ffi::CString::new(info.name).ok() { ... strcpy(outName, ...) }
XPluginStart_name(t) ==
    /\ proc = "running"
    /\ pc[t] = "start_name"
    /\ MarshalInto("outName", info.name)
    /\ Goto(t, "start_sig")
    /\ UNCHANGED <<PLUGIN, alive, destroyed, plugin_option, info, calls, proc,
                   hostState, conforming, hist>>

\* match ffi::CString::new(info.signature).ok() { ... strcpy(outSig, ...) }
XPluginStart_sig(t) ==
    /\ proc = "running"
    /\ pc[t] = "start_sig"
    /\ MarshalInto("outSig", info.signature)
    /\ Goto(t, "start_desc")
    /\ UNCHANGED <<PLUGIN, alive, destroyed, plugin_option, info, calls, proc,
                   hostState, conforming, hist>>

\* match ffi::CString::new(info.description).ok() { ... };  1
XPluginStart_desc(t) ==
    /\ proc = "running"
    /\ pc[t] = "start_desc"
    /\ MarshalInto("outDescription", info.description)
    /\ hist' = [hist EXCEPT ![LastStart(hist)].r = 1]
    /\ hostState' = "Created"
    /\ Goto(t, "idle")
    /\ UNCHANGED <<PLUGIN, alive, destroyed, plugin_option, info, calls, proc,
                   conforming>>

\* An XPluginStop that tests the slot and returns at once when it is empty.
XPluginStop_stop_Checked(t, n) ==
    /\ Enter(t, n)
    /\ conforming' = (conforming /\ hostState = "Created")
    /\ hist' = Begun("XPluginStop")
    /\ IF PLUGIN = NULL
         THEN UNCHANGED <<calls, proc, pc>>
         ELSE /\ CallOnSlot("stop")
              /\ IF proc' = "running" THEN Goto(t, "stop_free")
                                      ELSE UNCHANGED pc
    /\ UNCHANGED <<PLUGIN, alive, destroyed, plugin_option, info, buf, written,
                   hostState>>

\* (*PLUGIN).stop();
XPluginStop_stop(t, n) ==
    /\ Enter(t, n)
    /\ conforming' = (conforming /\ hostState = "Created")
    /\ hist' = Begun("XPluginStop")
    /\ CallOnSlot("stop")
    /\ IF proc' = "running" THEN Goto(t, "stop_free") ELSE UNCHANGED pc
    /\ UNCHANGED <<PLUGIN, alive, destroyed, plugin_option, info, buf, written,
                   hostState>>

\* An XPluginStop that never rebuilds the box: the instance is not dropped.
XPluginStop_free_Leaks(t) ==
    /\ proc = "running"
    /\ pc[t] = "stop_free"
    /\ Goto(t, "stop_reset")
    /\ UNCHANGED <<PLUGIN, alive, destroyed, plugin_option, info, buf, written,
                   calls, proc, hostState, conforming, hist>>

\* let plugin_box = Box::from_raw(PLUGIN); drop(plugin_box);
XPluginStop_free(t) ==
    /\ proc = "running"
    /\ pc[t] = "stop_free"
    /\ IF PLUGIN \in alive
         THEN /\ alive' = alive \ {PLUGIN}
              /\ destroyed' = destroyed \cup {PLUGIN}
              /\ calls' = Append(calls, Call("drop", PLUGIN))
              /\ Goto(t, "stop_reset")
              /\ UNCHANGED proc
         ELSE /\ proc' = "double_free"
              /\ UNCHANGED <<alive, destroyed, calls, pc>>
    /\ UNCHANGED <<PLUGIN, plugin_option, info, buf, written, hostState,
                   conforming, hist>>

\* An XPluginStop that frees the instance and leaves the slot pointing to it.
XPluginStop_reset_NotReset(t) ==
    /\ proc = "running"
    /\ pc[t] = "stop_reset"
    /\ hostState' = "Absent"
    /\ Goto(t, "idle")
    /\ UNCHANGED <<PLUGIN, alive, destroyed, plugin_option, info, buf, written,
                   calls, proc, conforming, hist>>

\* PLUGIN = ptr::null_mut();
XPluginStop_reset(t) ==
    /\ proc = "running"
    /\ pc[t] = "stop_reset"
    /\ PLUGIN' = NULL
    /\ hostState' = "Absent"
    /\ Goto(t, "idle")
    /\ UNCHANGED <<alive, destroyed, plugin_option, info, buf, written, calls,
                   proc, conforming, hist>>

\* An XPluginEnable that calls enable() twice.
XPluginEnable_Twice(t, n) ==
    /\ Enter(t, n)
    /\ conforming' = (conforming /\ hostState = "Created")
    /\ hist' = Begun("XPluginEnable")
    /\ IF PLUGIN \in alive
         THEN /\ calls' = calls \o <<Call("enable", PLUGIN), Call("enable", PLUGIN)>>
              /\ UNCHANGED proc
         ELSE CallOnSlot("enable")
    /\ hostState' = IF proc' = "running" THEN "Enabled" ELSE hostState
    /\ UNCHANGED <<PLUGIN, alive, destroyed, plugin_option, info, buf, written,
                   pc>>

\* (*PLUGIN).enable();
XPluginEnable(t, n) ==
    /\ Enter(t, n)
    /\ conforming' = (conforming /\ hostState = "Created")
    /\ hist' = Begun("XPluginEnable")
    /\ CallOnSlot("enable")
    /\ hostState' = IF proc' = "running" THEN "Enabled" ELSE hostState
    /\ UNCHANGED <<PLUGIN, alive, destroyed, plugin_option, info, buf, written,
                   pc>>

\* An XPluginDisable that calls enable().
XPluginDisable_CallsEnable(t, n) ==
    /\ Enter(t, n)
    /\ conforming' = (conforming /\ hostState = "Enabled")
    /\ hist' = Begun("XPluginDisable")
    /\ CallOnSlot("enable")
    /\ hostState' = IF proc' = "running" THEN "Created" ELSE hostState
    /\ UNCHANGED <<PLUGIN, alive, destroyed, plugin_option, info, buf, written,
                   pc>>

\* (*PLUGIN).disable();
XPluginDisable(t, n) ==
    /\ Enter(t, n)
    /\ conforming' = (conforming /\ hostState = "Enabled")
    /\ hist' = Begun("XPluginDisable")
    /\ CallOnSlot("disable")
    /\ hostState' = IF proc' = "running" THEN "Created" ELSE hostState
    /\ UNCHANGED <<PLUGIN, alive, destroyed, plugin_option, info, buf, written,
                   pc>>

\* The values the host passes to XPluginReceiveMessage: ids, and a
\* parameter pointer that may be null, valid or dangling.
MsgIds == {0, 1, 108}
MsgParams == {"null", "valid", "dangling"}

\* An XPluginReceiveMessage that reads what inParam points to.
XPluginReceiveMessage_ReadsParam(t, n) ==
    /\ Enter(t, n)
    /\ hist' = Begun("XPluginReceiveMessage")
    /\ \E inFrom \in MsgIds, inMessage \in MsgIds, inParam \in MsgParams :
           /\ proc' = (IF inParam = "valid" THEN proc ELSE "bad_param_deref")
           /\ UNCHANGED <<PLUGIN, alive, destroyed, plugin_option, info, buf,
                          written, calls, pc, hostState, conforming>>

\* XPluginReceiveMessage(inFrom, inMessage, inParam) { /* Nothing */ }
XPluginReceiveMessage(t, n) ==
    /\ Enter(t, n)
    /\ hist' = Begun("XPluginReceiveMessage")
    /\ \E inFrom \in MsgIds, inMessage \in MsgIds, inParam \in MsgParams :
           UNCHANGED <<PLUGIN, alive, destroyed, plugin_option, info, buf,
                       written, calls, pc, proc, hostState, conforming>>

\* ------------------------------------------------------- specifications
\* The life-cycle specification: the host calls the entry points one at a
\* time on its main thread, in any order, MaxCalls times at most.
Next ==
    \/ XPluginStart_start("main", MaxCalls)
    \/ XPluginStart_store("main")
    \/ XPluginStart_info("main", LifeInfos)
    \/ XPluginStart_name("main")
    \/ XPluginStart_sig("main")
    \/ XPluginStart_desc("main")
    \/ XPluginStop_stop("main", MaxCalls)
    \/ XPluginStop_free("main")
    \/ XPluginStop_reset("main")
    \/ XPluginEnable("main", MaxCalls)
    \/ XPluginDisable("main", MaxCalls)
    \/ XPluginReceiveMessage("main", MaxCalls)

Spec == Init /\ [][Next]_vars

\* The marshaling specification: the host loads the plugin once (no start
\* after an instance was created) and info() may return every descriptor
\* of PluginInfo.
NextMarshal ==
    \/ /\ alive = {}
       /\ destroyed = {}
       /\ XPluginStart_start("main", MaxCallsM)
    \/ XPluginStart_store("main")
    \/ XPluginStart_info("main", PluginInfo)
    \/ XPluginStart_name("main")
    \/ XPluginStart_sig("main")
    \/ XPluginStart_desc("main")
    \/ XPluginStop_stop("main", MaxCallsM)
    \/ XPluginStop_free("main")
    \/ XPluginStop_reset("main")
    \/ XPluginEnable("main", MaxCallsM)
    \/ XPluginDisable("main", MaxCallsM)
    \/ XPluginReceiveMessage("main", MaxCallsM)

SpecMarshal == InitMarshal /\ [][NextMarshal]_vars

\* The concurrent specification: the host loads and unloads the plugin on
\* thread "main" and enables and disables it on thread "other", with no
\* ordering between the two.  The steps of one call interleave with the
\* calls of the other thread; XPluginEnable and XPluginDisable read PLUGIN
\* and call through it in one step.
NextConc ==
    \/ XPluginStart_start("main", MaxCallsC)
    \/ XPluginStart_store("main")
    \/ XPluginStart_info("main", LifeInfos)
    \/ XPluginStart_name("main")
    \/ XPluginStart_sig("main")
    \/ XPluginStart_desc("main")
    \/ XPluginStop_stop("main", MaxCallsC)
    \/ XPluginStop_free("main")
    \/ XPluginStop_reset("main")
    \/ XPluginEnable("other", MaxCallsC)
    \/ XPluginDisable("other", MaxCallsC)

SpecConc == Init /\ [][NextConc]_vars

\* ------------------------------------------------------------ vocabulary
\* Between entry-point calls: the process runs and no call is in progress.
Idle == proc = "running" /\ \A t \in Threads : pc[t] = "idle"

LastHost == hist[Len(hist)]

\* The last entry-point call was XPluginStart and it has returned r.
StartReturned(r) ==
    /\ Idle
    /\ Len(hist) > 0
    /\ LastHost = HostCall("XPluginStart", r)

\* The descriptor field that goes to out pointer b.
Field(b) ==
    CASE b = "outName" -> info.name
      [] b = "outSig" -> info.signature
      [] b = "outDescription" -> info.description

\* The buffer b holds exactly the NUL-terminated bytes of text.
Holds(b, text) ==
    /\ Len(text) + 1 <= Cap
    /\ SubSeq(buf[b], 1, Len(text) + 1) = text \o <<NUL>>

\* Some XPluginStart has returned 1 and no XPluginStop was called since.
StartedNotStopped ==
    \E i \in 1..Len(hist) :
        /\ hist[i] = HostCall("XPluginStart", 1)
        /\ \A j \in (i + 1)..Len(hist) : hist[j].e # "XPluginStop"

IsMethod(c) == c.m # "drop"

\* The methods called on the Plugin implementation, in order (destruction
\* left out).
RECURSIVE MethodsOf(_)
MethodsOf(cs) ==
    IF cs = <<>> THEN <<>>
    ELSE (IF IsMethod(Head(cs)) THEN <<Head(cs).m>> ELSE <<>>) \o MethodsOf(Tail(cs))

\* The methods one entry-point call of the host stands for.
Matching(h) ==
    CASE h.e = "XPluginStart" -> IF h.r = 1 THEN <<"start", "info">> ELSE <<"start">>
      [] h.e = "XPluginEnable" -> <<"enable">>
      [] h.e = "XPluginDisable" -> <<"disable">>
      [] h.e = "XPluginStop" -> <<"stop">>
      [] h.e = "XPluginReceiveMessage" -> <<>>

RECURSIVE MatchingOf(_)
MatchingOf(hs) ==
    IF hs = <<>> THEN <<>> ELSE Matching(Head(hs)) \o MatchingOf(Tail(hs))

\* The instance created by the last start() before position i of calls.
RECURSIVE CreatedBefore(_)
CreatedBefore(i) ==
    IF i <= 1 THEN NULL
    ELSE IF calls[i - 1].m = "start" THEN calls[i - 1].inst
    ELSE CreatedBefore(i - 1)

\* ---------------------------------------------------------------- claims
\* C1: when start() returned an instance and no field of info() has a NUL
\* byte, XPluginStart returns 1, the instance is stored in PLUGIN and each
\* of the three buffers holds exactly the NUL-terminated bytes of its
\* field.
C1_StartFillsBuffers ==
    (/\ Idle
     /\ Len(hist) > 0
     /\ LastHost.e = "XPluginStart"
     /\ plugin_option # NULL
     /\ \A b \in Bufs : ~HasNul(Field(b)))
        => /\ LastHost.r = 1
           /\ PLUGIN = plugin_option
           /\ PLUGIN \in alive
           /\ \A b \in Bufs : Holds(b, Field(b))

\* C2: when start() returns None and the slot is empty, XPluginStart
\* returns 0 at once: the slot stays empty, no buffer is written and no
\* method but start() is called.
C2_StartNone ==
    [][(/\ Idle
        /\ PLUGIN = NULL
        /\ Len(hist') = Len(hist) + 1
        /\ hist'[Len(hist')].e = "XPluginStart"
        /\ plugin_option' = NULL
        /\ proc' = "running")
            => /\ hist'[Len(hist')].r = 0
               /\ pc' = pc
               /\ PLUGIN' = NULL
               /\ alive' = alive
               /\ buf' = buf
               /\ written' = written
               /\ calls' = Append(calls, Call("start", NULL))]_vars

\* XPluginStart has just returned 0 as the host's first call: nothing was
\* stored, written or called but start().
C2_Witness ==
    /\ StartReturned(0)
    /\ PLUGIN = NULL
    /\ calls = <<Call("start", NULL)>>
    /\ \A b \in Bufs : written[b] = <<>>

\* C3: while the host conforms to the life cycle, between calls the slot
\* is non-empty exactly when some XPluginStart returned 1 and no
\* XPluginStop completed since, and then it points to the one instance
\* alive; at most one instance is alive at any time and the slot is never
\* dereferenced while empty (or dangling).
C3_SlotInvariant ==
    conforming =>
        /\ Idle => (PLUGIN # NULL <=> StartedNotStopped)
        /\ Idle => alive = (IF PLUGIN = NULL THEN {} ELSE {PLUGIN})
        /\ Cardinality(alive) <= 1
        /\ proc \notin {"null_deref", "use_after_free", "double_free"}

\* A second instance is in the slot, the first one destroyed, and the
\* plugin is enabled.
C3_Witness ==
    /\ conforming
    /\ Idle
    /\ PLUGIN # NULL
    /\ destroyed # {}
    /\ hostState = "Enabled"

\* C4: while the host conforms to the life cycle, the methods called on
\* the Plugin implementation are exactly those matching the host's calls,
\* in the same order; every instance method is called on the instance the
\* last start() created, which is not destroyed before the call.
C4_CallSequence ==
    (conforming /\ Idle) =>
        /\ MethodsOf(calls) = MatchingOf(hist)
        /\ \A i \in 1..Len(calls) :
               calls[i].m # "start" =>
                   /\ calls[i].inst # NULL
                   /\ calls[i].inst = CreatedBefore(i)
                   /\ \A j \in 1..(i - 1) :
                          calls[j] # Call("drop", calls[i].inst)

\* The host has called start, enable, disable, enable, disable, stop.
C4_Witness ==
    /\ conforming
    /\ Idle
    /\ hist = <<HostCall("XPluginStart", 1), HostCall("XPluginEnable", NoRet),
                HostCall("XPluginDisable", NoRet), HostCall("XPluginEnable", NoRet),
                HostCall("XPluginDisable", NoRet), HostCall("XPluginStop", NoRet)>>
    /\ MethodsOf(calls) = <<"start", "info", "enable", "disable", "enable",
                            "disable", "stop">>

\* C5: XPluginStop calls stop() on the instance in the slot, then destroys
\* that instance, then empties the slot; stop() is the last method called
\* on the instance and no later call reaches the destroyed instance.
C5_StopIsLast ==
    /\ \A i \in 1..Len(calls) :
           calls[i].m = "drop" =>
               /\ i > 1
               /\ calls[i - 1] = Call("stop", calls[i].inst)
               /\ \A j \in (i + 1)..Len(calls) : calls[j].inst # calls[i].inst
    /\ \A i \in 1..Len(calls) :
           calls[i].m = "stop" =>
               \A j \in (i + 1)..Len(calls) :
                   calls[j].inst = calls[i].inst =>
                       (j = i + 1 /\ calls[j].m = "drop")
    /\ pc["main"] = "stop_free" =>
           (PLUGIN \in alive /\ calls[Len(calls)] = Call("stop", PLUGIN))
    /\ pc["main"] = "stop_reset" =>
           (PLUGIN \in destroyed /\ calls[Len(calls)] = Call("drop", PLUGIN))
    /\ PLUGIN \in destroyed => pc["main"] = "stop_reset"
    /\ Idle /\ Len(hist) > 0 /\ LastHost.e = "XPluginStop" => PLUGIN = NULL
    /\ proc \notin {"use_after_free", "double_free"}

\* XPluginStop has destroyed an instance and the host has called the
\* entry points again since: a method ran after the destruction.
C5_Witness ==
    /\ Idle
    /\ \E i \in 1..Len(calls) :
           /\ calls[i].m = "drop"
           /\ Len(calls) >= i + 3

\* C6: a descriptor field with an embedded NUL byte is marshaled as
\* exactly "<invalid>" and its terminator: nine bytes and a NUL.
C6_FallbackExact ==
    StartReturned(1) =>
        \A b \in Bufs : HasNul(Field(b)) => written[b] = Invalid \o <<NUL>>

\* C7: XPluginStart stores no more bytes at an out pointer than the
\* capacity of the buffer.
C7_WithinCapacity == \A b \in Bufs : Len(written[b]) <= Cap

\* C8: a panic inside a method of the implementation never unwinds out of
\* an entry point into the host.
C8_NoUnwindIntoHost == proc # "unwound"

\* C9: XPluginReceiveMessage changes neither the slot, the instances, the
\* buffers nor the locals, calls no method and dereferences nothing,
\* whatever the ids, the parameter pointer and the life-cycle state.
C9_ReceiveMessageNoOp ==
    [][(/\ Len(hist') = Len(hist) + 1
        /\ hist'[Len(hist')].e = "XPluginReceiveMessage")
            => /\ UNCHANGED <<PLUGIN, alive, destroyed, plugin_option, info,
                              buf, written, calls, pc, proc>>
               /\ proc' = "running"]_vars

\* XPluginReceiveMessage has returned while an instance is in the slot and
\* the buffers are written.
C9_Witness ==
    /\ Idle
    /\ Len(hist) > 1
    /\ LastHost.e = "XPluginReceiveMessage"
    /\ PLUGIN \in alive
    /\ written["outName"] # <<>>

\* C10: for a field without a NUL byte, the bytes XPluginStart stores are
\* the field and one terminator, so that reading them up to the first NUL
\* gives back the field; when they fit the buffer, so does reading the
\* buffer.
C10_RoundTrip ==
    StartReturned(1) =>
        \A b \in Bufs :
            ~HasNul(Field(b)) =>
                /\ Len(written[b]) = Len(Field(b)) + 1
                /\ Decode(written[b]) = Field(b)
                /\ Len(written[b]) <= Cap => Decode(buf[b]) = Field(b)

\* A field of one byte and a field that fills the buffer to its last byte
\* were marshaled, into buffers that held no NUL before.
C10_Witness ==
    /\ StartReturned(1)
    /\ info.name = Fill(1)
    /\ info.signature = Fill(Cap - 1)
    /\ ~HasNul(info.description)
    /\ buf["outName"][Cap] # NUL
    /\ Decode(buf["outSig"]) = Fill(Cap - 1)

\* The out pointers whose descriptor field has a NUL byte.
NulFields == {b \in Bufs : HasNul(Field(b))}

\* C11: a field that cannot be marshaled is absorbed where it occurs: the
\* marshaling steps never abort or panic, and when exactly one field has
\* an embedded NUL, XPluginStart still returns 1 with the instance in the
\* slot and the other two out pointers receive their own fields,
\* NUL-terminated (held by the buffer when they fit it).
C11_FallbackIsLocal ==
    /\ pc["main"] \in {"start_name", "start_sig", "start_desc"}
           => proc = "running"
    /\ (/\ Idle
        /\ Len(hist) > 0
        /\ LastHost.e = "XPluginStart"
        /\ plugin_option # NULL
        /\ Cardinality(NulFields) = 1)
           => /\ LastHost.r = 1
              /\ PLUGIN = plugin_option
              /\ PLUGIN \in alive
              /\ \A b \in Bufs \ NulFields :
                     /\ written[b] = Field(b) \o <<NUL>>
                     /\ Len(written[b]) <= Cap => Holds(b, Field(b))

\* XPluginStart has returned 1 for a descriptor whose name has an embedded
\* NUL and whose other fields are plain and not empty.
C11_Witness ==
    /\ StartReturned(1)
    /\ info.name = <<66, NUL, 65>>
    /\ info.signature = Fill(1)
    /\ info.description = Fill(Cap - 1)
    /\ Holds("outSig", info.signature)
    /\ Holds("outDescription", info.description)

\* The instances start() has returned so far.
Created == {calls[i].inst : i \in {j \in 1..Len(calls) : calls[j].m = "start"}} \ {NULL}

\* The positions of calls at which instance x was destroyed.
DropsOf(x) == {i \in 1..Len(calls) : calls[i] = Call("drop", x)}

\* C12: over the start..stop cycles of a conforming host, every start()
\* that succeeds returns a fresh instance, every later call up to the
\* stop reaches that instance only, and every instance is destroyed
\* exactly once, by the XPluginStop that ends its cycle: after it nothing
\* is alive, the slot is empty and the life cycle is back in Absent.
C12_Cycles ==
    conforming =>
        /\ \A i, j \in 1..Len(calls) :
               (i < j /\ calls[i].m = "start" /\ calls[j].m = "start"
                      /\ calls[i].inst # NULL)
                   => calls[j].inst # calls[i].inst
        /\ \A i \in 1..Len(calls) :
               calls[i].m # "start" => calls[i].inst = CreatedBefore(i)
        /\ \A x \in Created :
               /\ Cardinality(DropsOf(x)) <= 1
               /\ x \in destroyed <=> DropsOf(x) # {}
               /\ x \in alive <=> DropsOf(x) = {}
               /\ \A i \in DropsOf(x) : i > 1 /\ calls[i - 1] = Call("stop", x)
        /\ alive \cup destroyed = Created
        /\ proc # "double_free"
        /\ (Idle /\ Len(hist) > 0 /\ LastHost.e = "XPluginStop")
               => /\ PLUGIN = NULL
                  /\ alive = {}
                  /\ destroyed = Created
                  /\ hostState = "Absent"

\* Two cycles are over, each with its own instance destroyed, and a third
\* start was accepted.
C12_Witness ==
    /\ conforming
    /\ Idle
    /\ Cardinality(destroyed) = 2
    /\ PLUGIN \in alive
    /\ PLUGIN \notin destroyed
    /\ hostState = "Created"

\* The host begins a call of entry point e in this step.
Calling(e) ==
    /\ Len(hist') = Len(hist) + 1
    /\ hist'[Len(hist')].e = e

\* C13: called with an instance in the slot, XPluginEnable calls enable()
\* and XPluginDisable calls disable() on that instance, once, and nothing
\* else: the slot, the instances, the buffers and XPluginStart's locals
\* stay as they were and the call is over in this one step.
C13_EnableDisableFrame ==
    [][\A e \in {"XPluginEnable", "XPluginDisable"} :
           (Calling(e) /\ Idle /\ PLUGIN # NULL)
               => /\ calls' = Append(calls,
                        Call(IF e = "XPluginEnable" THEN "enable" ELSE "disable",
                             PLUGIN))
                  /\ PLUGIN' = PLUGIN
                  /\ PLUGIN' \in alive'
                  /\ UNCHANGED <<alive, destroyed, plugin_option, info, buf,
                                 written, pc>>]_vars

\* XPluginEnable and then XPluginDisable have returned, with the instance
\* still in the slot and the buffers written by the start before them.
C13_Witness ==
    /\ Idle
    /\ Len(hist) > 2
    /\ LastHost.e = "XPluginDisable"
    /\ hist[Len(hist) - 1].e = "XPluginEnable"
    /\ PLUGIN \in alive
    /\ Len(calls) > 2
    /\ calls[Len(calls)] = Call("disable", PLUGIN)
    /\ calls[Len(calls) - 1] = Call("enable", PLUGIN)
    /\ written["outName"] # <<>>

\* C14: XPluginEnable, XPluginDisable and XPluginStop do not test the slot:
\* called while it is empty, each dereferences the null pointer, which is
\* undefined behaviour; none returns without effect and no method of any
\* instance is called.
C14_NoEmptinessCheck ==
    [][\A e \in {"XPluginEnable", "XPluginDisable", "XPluginStop"} :
           (Calling(e) /\ Idle /\ PLUGIN = NULL)
               => /\ proc' = "null_deref"
                  /\ calls' = calls
                  /\ UNCHANGED <<PLUGIN, alive, destroyed, buf, written>>]_vars

\* A double stop: the second XPluginStop found the slot emptied by the
\* first one and dereferenced null.
C14_Witness ==
    /\ proc = "null_deref"
    /\ Len(hist) > 2
    /\ LastHost.e = "XPluginStop"
    /\ hist[Len(hist) - 1].e = "XPluginStop"
    /\ PLUGIN = NULL
    /\ destroyed # {}

\* The instances that are alive and that the adapter has no pointer to:
\* not in the slot and not the one XPluginStart is about to store.
Leaked ==
    {x \in alive : /\ x # PLUGIN
                   /\ ~(pc["main"] = "start_store" /\ x = plugin_option)}

\* C15: XPluginStart does not look at the slot before it stores.  When
\* start() returned an instance the slot is overwritten with it whatever
\* it held, and the instance it held is not destroyed; an instance that
\* lost the slot stays alive for ever and no method, stop() included, is
\* called on it again.  When start() returned None with an instance in the
\* slot, the slot keeps that instance and the host is told 0.
C15_StartOverwrites ==
    [][/\ (pc["main"] = "start_store" /\ pc'["main"] = "start_info")
              => /\ PLUGIN' = plugin_option
                 /\ PLUGIN' \in alive'
                 /\ alive' = alive
                 /\ destroyed' = destroyed
                 /\ (PLUGIN \in alive /\ PLUGIN # plugin_option)
                        => PLUGIN \in Leaked'
       /\ \A x \in Leaked :
              /\ x \in Leaked'
              /\ x \notin destroyed'
              /\ \A i \in 1..Len(calls') :
                     (i > Len(calls) /\ calls'[i].m # "start")
                         => calls'[i].inst # x
       /\ (/\ Calling("XPluginStart") /\ Idle /\ PLUGIN # NULL
           /\ hist'[Len(hist')].r = 0)
              => /\ PLUGIN' = PLUGIN
                 /\ alive' = alive
                 /\ destroyed' = destroyed
                 /\ pc' = pc /\ proc' = proc]_vars

\* Two successful starts in a row, a start that returned 0 and a stop: the
\* second instance was stopped and destroyed, the first one is still
\* alive, was never stopped, and nothing refers to it.
C15_Witness ==
    /\ Idle
    /\ Len(hist) = 4
    /\ hist[1] = HostCall("XPluginStart", 1)
    /\ hist[2] = HostCall("XPluginStart", 1)
    /\ hist[3] = HostCall("XPluginStart", 0)
    /\ hist[4].e = "XPluginStop"
    /\ PLUGIN = NULL
    /\ alive = {1}
    /\ destroyed = {2}
    /\ Leaked = {1}
    /\ \A i \in 1..Len(calls) : calls[i] # Call("stop", 1)

\* XPluginStop is running on thread "main", past its call of stop().
Stopping == proc = "running" /\ pc["main"] \in {"stop_free", "stop_reset"}

\* The positions of calls where enable() or disable() was called on an
\* instance that stop() had been called on before.
AfterStop ==
    {j \in 1..Len(calls) :
        /\ calls[j].m \in {"enable", "disable"}
        /\ \E i \in 1..(j - 1) : calls[i] = Call("stop", calls[j].inst)}

\* C16: nothing excludes XPluginEnable and XPluginDisable while XPluginStop
\* runs on another thread: at each of its steps after stop() both may be
\* entered, and entered there they call enable() or disable() on the
\* instance stop() was just called on, or, once it is destroyed, call
\* through the dangling pointer.
C16_NoMutualExclusion ==
    /\ []((Stopping /\ Len(hist) < MaxCallsC)
              => /\ ENABLED XPluginEnable("other", MaxCallsC)
                 /\ ENABLED XPluginDisable("other", MaxCallsC))
    /\ [][\A e \in {"XPluginEnable", "XPluginDisable"} :
              (Calling(e) /\ Stopping)
                  => /\ pc["main"] = "stop_free"
                         => /\ PLUGIN \in alive
                            /\ Len(calls') = Len(calls) + 1
                            /\ calls'[Len(calls')].inst = PLUGIN
                            /\ Len(calls') \in AfterStop'
                     /\ pc["main"] = "stop_reset"
                         => /\ PLUGIN \in destroyed
                            /\ proc' = "use_after_free"]_vars

\* XPluginStop has destroyed an instance on which, after its stop(),
\* enable() or disable() was called from the other thread.
C16_Witness ==
    /\ AfterStop # {}
    /\ \E j \in AfterStop : calls[j].inst \in destroyed

====
